---- MODULE Spec2Model ----
(***************************************************************************)
(* Model of the burn pipeline of hooks/use-burn-nfts.ts: mutateAsync       *)
(* (per-asset strategy resolution, grouping) and sendGroups (simulate,     *)
(* split, fetch context, sign-and-send through useWalletUi).               *)
(*                                                                         *)
(* Every await of the code is one action: the action draws the outcome of  *)
(* the awaited call and runs the synchronous code up to the next await.    *)
(* Assets are identified by their position in rawItems (mint = index).     *)
(*                                                                         *)
(* The module also models the effect of hooks/use-nft-enrichment.ts that   *)
(* resolves the metadata of the listed assets slice by slice.              *)
(***************************************************************************)
EXTENDS Integers, Sequences, FiniteSets, TLC

\* ------------------------------------------------------------------ bounds

\* longest rawItems list of a whole run (Spec)
MaxItems == 1
\* longest prepared list handed to the planner and dispatcher (SpecSend)
MaxPrepared == 7
\* context slots the cluster may answer with
MaxSlot == 2
\* longest prepared list handed to the planner alone (SpecPlan)
MaxPlanned == 17
\* longest work list of the enrichment effect (SpecEnrich)
MaxAssets == 49
\* invocations of the enrichment effect, the one at mount included (SpecEnrich)
MaxEffects == 3

\* ------------------------------------------------------- program constants

MAX_PER_TX_LIGHT == 16
MAX_PER_TX_HEAVY == 6
CB_UNITS == 1000000
PRIORITY_FEE_MICRO_LAMPORTS == 20000
deepClean == TRUE
BATCH == 24

\* ------------------------------------------------------------- data types

Programs == {"TOKEN", "TOKEN_2022"}

\* NftBurnItem: the hint flags of one descriptor (mint is its index)
NftBurnItem ==
  [isCompressed : BOOLEAN, isCoreHint : BOOLEAN, isPnftHint : BOOLEAN,
   frozenHint : BOOLEAN, programIdHint : Programs \cup {"none"},
   tokenAccount : {"none", "supplied"}, collectionMintHint : BOOLEAN]

NoItem == [isCompressed |-> FALSE, isCoreHint |-> FALSE, isPnftHint |-> FALSE,
           frozenHint |-> FALSE, programIdHint |-> "none",
           tokenAccount |-> "none", collectionMintHint |-> FALSE]

\* one TransactionInstruction: what it does, on which holding account, under
\* which token program, with which optional accounts, built under which payer
Ix(op, rules, prog, acct, coll, payer) ==
  [op |-> op, rules |-> rules, prog |-> prog, acct |-> acct, coll |-> coll,
   payer |-> payer]

\* ------------------------------------------------------- error text helpers

\* error texts the simulator can meet (sim.value.err or a thrown error)
SimErrTexts ==
  {"InstructionError",
   "base64 encoded solana_transaction::versioned::VersionedTransaction too large: 1644 bytes (max: encoded/raw 1644/1232)",
   "Transaction too large: 1300 > 1232",
   "failed to get recent blockhash"}

\* error texts the wallet capability fails with
WalletErrTexts ==
  {"User rejected the request", "Sign request CANCELLED", "Permission denied",
   "Transaction simulation failed"}

\* error text getLatestBlockhashAndContext fails with
FetchErrTexts == {"failed to get recent blockhash"}

\* String.prototype.toLowerCase on the texts above
toLowerCase(s) ==
  CASE s = "User rejected the request" -> "user rejected the request"
    [] s = "Sign request CANCELLED" -> "sign request cancelled"
    [] s = "Permission denied" -> "permission denied"
    [] s = "Transaction simulation failed" -> "transaction simulation failed"
    [] OTHER -> s

\* String.prototype.includes(needle), case-sensitive, on the texts above
includes(s, needle) ==
  CASE s = "base64 encoded solana_transaction::versioned::VersionedTransaction too large: 1644 bytes (max: encoded/raw 1644/1232)"
         -> needle \in {"VersionedTransaction too large",
                        "solana_transaction::versioned::VersionedTransaction too large",
                        "Transaction too large", "encoded/raw"}
    [] s = "Transaction too large: 1300 > 1232" -> needle \in {"Transaction too large"}
    [] s = "User rejected the request" -> needle \in {"reject"}
    [] s = "Permission denied" -> needle \in {"denied"}
    [] s = "user rejected the request" -> needle \in {"reject"}
    [] s = "sign request cancelled" -> needle \in {"cancel"}
    [] s = "permission denied" -> needle \in {"denied"}
    [] OTHER -> FALSE

\* err values: a string, an Error object (message), or null
stringifyErr(err) ==
  IF err.type = "null" THEN ""
  ELSE err.text

isTooLargeErr(err) ==
  LET s == stringifyErr(err) IN
    \/ includes(s, "VersionedTransaction too large")
    \/ includes(s, "solana_transaction::versioned::VersionedTransaction too large")
    \/ includes(s, "transaction too large")
    \/ includes(s, "Transaction too large")
    \/ includes(s, "packet too large")
    \/ includes(s, "encoded/raw")

\* ---------------------------------------------------------------- simulator

\* what the cluster does with one dry run: the context fetch, the message
\* compilation or the RPC call throws, or the RPC answers with or without err
SimRaw ==
  {[kind |-> "ok", text |-> ""]}
    \cup [kind : {"err", "threw"}, text : SimErrTexts]

\* mutant of simulateIxs: no catch block, an exception of the context fetch,
\* of the compilation or of the RPC call leaves the function
simulateIxsNoCatch(raw) ==
  IF raw.kind = "ok" THEN [ok |-> TRUE, errStr |-> "", threw |-> FALSE]
  ELSE [ok |-> FALSE,
        errStr |-> stringifyErr([type |-> "string", text |-> raw.text]),
        threw |-> raw.kind = "threw"]

\* simulateIxs: SimResult for a raw outcome; `threw` says whether an exception
\* leaves the function (the catch block returns { ok: false, err, errStr })
simulateIxs(raw) ==
  IF raw.kind = "ok" THEN [ok |-> TRUE, errStr |-> "", threw |-> FALSE]
  ELSE [ok |-> FALSE,
        errStr |-> stringifyErr([type |-> "string", text |-> raw.text]),
        threw |-> FALSE]


\* ------------------------------------------------------------------- state

VARIABLES
  pc,          \* where mutateAsync / sendGroups is suspended
  nItems,      \* rawItems.length
  rawItems,    \* the descriptors iterated so far: mint, isCompressed, isCoreHint
  it,          \* the descriptor of the current iteration (all hint flags)
  i,           \* index of the current iteration, 1-based
  skipped,     \* BurnSkip[] : [mint, reason]
  prepared,    \* [mint, ixs, kind][]
  programId,   \* let programId of the current iteration
  tokenAccount,\* let tokenAccount of the current iteration
  variants,    \* result of buildPnftVariants for the current iteration
  candIdx,     \* position in `order` of the candidate being simulated
  pending,     \* instructions whose simulation is awaited (core chosen, legacyIxs)
  simLog,      \* candidates simulated for the latest item: [name, ok]
  calls,       \* builder calls, simulations and account reads issued: [mint, call]
  umiIdentity, \* signer identity installed in the memoized umi instance
  queue,       \* sendGroups: Group[][]
  qmeta,       \* per queued group: splits since its initial group, and that group's size
  group,       \* sendGroups: the group taken from the queue
  inflight,    \* call pending at the wallet: [slot, skipPreflight], the slot of
               \* the context fetched for it, and the error the call with
               \* options failed with ("" if it has not failed)
  ok,          \* sendGroups: [mint, sig][]
  sent,        \* groups handed to signAndSendTransaction
  declined,    \* groups dropped by the `continue` of the catch block
  splits,      \* groups replaced by their two halves
  simSeen,     \* outcome of the simulation of the dequeued group, "none" once used
  caught,      \* error caught by the catch block in this iteration: [group, text]
  pass,        \* 0: single run; 1, 2: first and second resolution of the same input
  oracle,      \* answers given so far, replayed by the second resolution
  first,       \* what the first resolution produced
  thrown,      \* message of the error that left mutateAsync, "" if none
  result       \* BurnBatchResult returned by mutateAsync (valid when pc = "done")

\* state of useNftEnrichment
VARIABLES
  mounted,     \* the component using the hook is mounted
  effects,     \* invocations of the enrichment effect so far
  enrichQueue, \* queue.length of the current render (assets lacking image or name)
  nfts,        \* useState nfts, over the assets of the work list: per asset the
               \* run whose result it holds, 0 for the raw asset
  isEnriching, \* useState isEnriching
  runs         \* one record per call of run(): its closure (aborted, idx), the
               \* length of its queue, the slice awaited and where it stands

burnVars == <<pc, nItems, rawItems, it, i, skipped, prepared, programId,
              tokenAccount, variants, candIdx, pending, simLog, calls,
              umiIdentity, queue, qmeta, group, inflight, ok, sent, declined,
              splits, simSeen, caught, pass, oracle, first, thrown, result>>

enrichVars == <<mounted, effects, enrichQueue, nfts, isEnriching, runs>>

vars == <<pc, nItems, rawItems, it, i, skipped, prepared, programId,
          tokenAccount, variants, candIdx, pending, simLog, calls,
          umiIdentity, queue, qmeta, group, inflight, ok, sent, declined,
          splits, simSeen, caught, pass, oracle, first, thrown, result,
          mounted, effects, enrichQueue, nfts, isEnriching, runs>>

selVars == <<it, programId, tokenAccount, variants, candIdx, pending>>
sendVars == <<queue, qmeta, group, inflight, ok, sent, declined, splits, simSeen,
              caught>>

NoVariants == [found |-> FALSE, burnOnly |-> <<>>, unlockThenBurn |-> <<>>,
               burnOnlyWithRules |-> <<>>, unlockThenBurnWithRules |-> <<>>]
NoInflight == [slot |-> 0, fetched |-> 0, skipPreflight |-> FALSE, firstErr |-> ""]
NoResult == [ok |-> <<>>, skipped |-> <<>>]
NoCaught == [group |-> <<>>, text |-> ""]
NoFirst == [skipped |-> <<>>, prepared |-> <<>>]

\* ---------------------------------------------------------------- builders

\* answers of the account-state reader to the builders and the selector
CoreAnswers == {"missing", "noCollection", "collection", "collectionFetchFails"}
PnftAnswers == {"noTokenRecord", "threw", "noRuleSet", "ruleSet"}
LegacyAnswers == {"noMetadata", "threw", "metadata"}
MintAnswers == {"missing", "rpcError", "TOKEN", "TOKEN_2022", "otherOwner"}
AccountAnswers == {"missing", "rpcError", "TOKEN", "TOKEN_2022"}

\* umi.use(signerIdentity(createNoopSigner(ownerU)))
useSignerIdentity(umi) == "owner"

\* buildCoreBurnVariants: installs the identity, fetches the asset (throws if
\* missing); withCollection stays [] unless the collection is fetched
buildCoreBurnVariants(ans, umi) ==
  LET id == useSignerIdentity(umi) IN
    [umi |-> id,
     threw |-> ans = "missing",
     withoutCollection |->
       IF ans = "missing" THEN <<>>
       ELSE <<Ix("coreBurn", FALSE, "CORE", "asset", FALSE, id)>>,
     withCollection |->
       IF ans = "collection"
       THEN <<Ix("coreBurn", FALSE, "CORE", "asset", TRUE, id)>>
       ELSE <<>>]

\* mutant of buildPnftVariants: the instructions are built under the identity
\* found in umi, and the owner's identity is installed only afterwards
buildPnftVariantsLateIdentity(ans, token, collectionMint, umi) ==
  IF ans \in {"noTokenRecord", "threw"}
  THEN [umi |-> umi, variants |->
          [found |-> FALSE, burnOnly |-> <<>>, unlockThenBurn |-> <<>>,
           burnOnlyWithRules |-> <<>>, unlockThenBurnWithRules |-> <<>>]]
  ELSE
    LET ruleSetU == ans = "ruleSet"
        makeBurn(withRules) ==
          <<Ix("burnV1", withRules /\ ruleSetU, "TM", token, collectionMint, umi)>>
        makeUnlock == <<Ix("unlockV1", FALSE, "TM", token, collectionMint, umi)>>
    IN [umi |-> "owner",
        variants |->
          [found |-> TRUE,
           burnOnly |-> makeBurn(FALSE),
           unlockThenBurn |-> makeUnlock \o makeBurn(FALSE),
           burnOnlyWithRules |-> IF ruleSetU THEN makeBurn(TRUE) ELSE <<>>,
           unlockThenBurnWithRules |->
             IF ruleSetU THEN makeUnlock \o makeBurn(TRUE) ELSE <<>>]]

\* buildPnftVariants: null without a token record or on any exception; the
\* with-rules candidates are undefined (here <<>>) unless a rule set is attached
buildPnftVariants(ans, token, collectionMint, umi) ==
  IF ans = "noTokenRecord" THEN [umi |-> umi, variants |-> NoVariants]
  ELSE
    LET id == useSignerIdentity(umi)
        ruleSetU == ans = "ruleSet"
        makeBurn(withRules) ==
          <<Ix("burnV1", withRules /\ ruleSetU, "TM", token, collectionMint, id)>>
        makeUnlock == <<Ix("unlockV1", FALSE, "TM", token, collectionMint, id)>>
    IN IF ans = "threw" THEN [umi |-> id, variants |-> NoVariants]
       ELSE [umi |-> id,
             variants |->
               [found |-> TRUE,
                burnOnly |-> makeBurn(FALSE),
                unlockThenBurn |-> makeUnlock \o makeBurn(FALSE),
                burnOnlyWithRules |-> IF ruleSetU THEN makeBurn(TRUE) ELSE <<>>,
                unlockThenBurnWithRules |->
                  IF ruleSetU THEN makeUnlock \o makeBurn(TRUE) ELSE <<>>]]

\* mutant of buildLegacyTmBurn: the presence of the Metadata account not tested
buildLegacyTmBurnNoRecordTest(ans, token, tokenProgramId, umi) ==
  LET id == useSignerIdentity(umi) IN
    [umi |-> id,
     ixs |-> IF ans # "threw"
             THEN <<Ix("burnV1", FALSE, tokenProgramId, token, FALSE, id),
                    Ix("closeAccount", FALSE, tokenProgramId, token, FALSE, "owner")>>
             ELSE <<>>]

\* buildLegacyTmBurn: null (here <<>>) without a Metadata account or on any
\* exception, else the Token Metadata burn followed by the close of the ATA
buildLegacyTmBurn(ans, token, tokenProgramId, umi) ==
  LET id == useSignerIdentity(umi) IN
    [umi |-> id,
     ixs |-> IF ans = "metadata"
             THEN <<Ix("burnV1", FALSE, tokenProgramId, token, FALSE, id),
                    Ix("closeAccount", FALSE, tokenProgramId, token, FALSE, "owner")>>
             ELSE <<>>]

\* createBurnInstruction(1n) + createCloseAccountInstruction
splBurnIxs(token, prog) ==
  <<Ix("burn", FALSE, prog, token, FALSE, "owner"),
    Ix("closeAccount", FALSE, prog, token, FALSE, "owner")>>

\* resolveAtaByMintProgram(...).ata
resolveAtaByMintProgram(prog) == IF prog = "TOKEN_2022" THEN "ATA_TOKEN_2022" ELSE "ATA_TOKEN"

\* mutant of order: the rule-less burn tried before the burn with rules
orderNoRulesFirst(v) ==
  <<[name |-> "burn only (no rules)", ixs |-> v.burnOnly],
    [name |-> "burn only (with rules)", ixs |-> v.burnOnlyWithRules],
    [name |-> "unlock+burn (with rules)", ixs |-> v.unlockThenBurnWithRules],
    [name |-> "unlock+burn (no rules)", ixs |-> v.unlockThenBurn]>>

\* the `order` array of the pNFT pick
order(v) ==
  <<[name |-> "burn only (with rules)", ixs |-> v.burnOnlyWithRules],
    [name |-> "burn only (no rules)", ixs |-> v.burnOnly],
    [name |-> "unlock+burn (with rules)", ixs |-> v.unlockThenBurnWithRules],
    [name |-> "unlock+burn (no rules)", ixs |-> v.unlockThenBurn]>>

\* first position >= k of `order` holding a candidate, 5 if none
RECURSIVE nextCand(_, _)
nextCand(v, k) ==
  IF k > 4 THEN 5
  ELSE IF Len(order(v)[k].ixs) # 0 THEN k ELSE nextCand(v, k + 1)

\* mutant of fallbackPick: the rule-less burn preferred as the fallback
fallbackPickNoRules(v) ==
  IF v.burnOnly # <<>> THEN v.burnOnly
  ELSE IF v.burnOnlyWithRules # <<>> THEN v.burnOnlyWithRules
  ELSE IF v.unlockThenBurn # <<>> THEN v.unlockThenBurn
  ELSE v.unlockThenBurnWithRules

\* a ?? b ?? c ?? d over the four variants
fallbackPick(v) ==
  IF v.burnOnlyWithRules # <<>> THEN v.burnOnlyWithRules
  ELSE IF v.burnOnly # <<>> THEN v.burnOnly
  ELSE IF v.unlockThenBurnWithRules # <<>> THEN v.unlockThenBurnWithRules
  ELSE v.unlockThenBurn


\* ------------------------------------------------- mutateAsync: resolution

\* `continue` / end of one iteration of `for (const it of rawItems)`
Iterate(newSkipped, newPrepared) ==
  /\ skipped' = newSkipped
  /\ prepared' = newPrepared
  /\ i' = i + 1
  /\ pc' = IF i + 1 > nItems THEN "plan" ELSE "item"
  /\ it' = NoItem
  /\ programId' = "none"
  /\ tokenAccount' = "none"
  /\ candIdx' = 0
  /\ pending' = <<>>

Skip(reason) == Iterate(Append(skipped, [mint |-> i, reason |-> reason]), prepared)

\* mutant of Prepare: the item pushed twice
PrepareTwice(ixs, kind) ==
  Iterate(skipped,
          prepared \o <<[mint |-> i, ixs |-> ixs, kind |-> kind],
                        [mint |-> i, ixs |-> ixs, kind |-> kind]>>)

Prepare(ixs, kind) ==
  Iterate(skipped, Append(prepared, [mint |-> i, ixs |-> ixs, kind |-> kind]))

\* a call for the current item is recorded
called(c) == calls' = calls \cup {[mint |-> i, call |-> c]}

\* the environment answers `ans` to the query `key`; a second resolution of
\* the same input meets the account state and the simulation outcomes of the first
Ask(key, ans) ==
  IF pass = 0 THEN oracle' = oracle
  ELSE /\ (<<i, key>> \in DOMAIN oracle => oracle[<<i, key>>] = ans)
       /\ oracle' = (<<i, key>> :> ans) @@ oracle

\* `if (!account?.publicKey) throw`, then the loop is entered
Start ==
  /\ pc = "start"
  /\ \E connected \in BOOLEAN :
       IF connected
       THEN /\ pc' = IF nItems = 0 THEN "plan" ELSE "item"
            /\ thrown' = thrown
       ELSE /\ pc' = "thrown"
            /\ thrown' = "Wallet not connected"
  /\ UNCHANGED <<nItems, rawItems, i, skipped, prepared, simLog, calls,
                 umiIdentity, pass, oracle, first, result>>
  /\ UNCHANGED selVars
  /\ UNCHANGED sendVars
  /\ UNCHANGED enrichVars

\* programId is known: resolve the holding account (lines 452-465, first part)
withProgram(d, prog) ==
  /\ programId' = prog
  /\ IF d.tokenAccount = "none"
     THEN /\ tokenAccount' = resolveAtaByMintProgram(prog)
          /\ pc' = "pnftBuild"
     ELSE /\ tokenAccount' = "supplied"
          /\ pc' = "taRead"

\* mutants of isCompressed: the flag tested after the core branch; the flag
\* honoured only for descriptors without a supplied holding account
isCompressedUnlessCore(d) == d.isCompressed /\ ~d.isCoreHint

isCompressedUnlessAccount(d) == d.isCompressed /\ d.tokenAccount = "none"

\* the test of the compressed flag; true sends the item to `skipped`
isCompressed(d) == d.isCompressed

\* head of one iteration, up to its first await
BeginItem ==
  /\ pc = "item"
  /\ \E d \in NftBurnItem :
       /\ Ask("descriptor", d)
       /\ rawItems' = Append(rawItems, [mint |-> i, isCompressed |-> d.isCompressed,
                                        isCoreHint |-> d.isCoreHint])
       /\ simLog' = <<>>
       /\ variants' = NoVariants
       /\ IF isCompressed(d)
          THEN Skip("cNFT not supported")
          ELSE /\ it' = d
               /\ i' = i
               /\ UNCHANGED <<skipped, prepared, candIdx, pending>>
               /\ IF d.isCoreHint
                  THEN /\ pc' = "coreBuild"
                       /\ UNCHANGED <<programId, tokenAccount>>
                  ELSE IF d.programIdHint # "none"
                  THEN withProgram(d, d.programIdHint)
                  ELSE /\ pc' = "mintRead"
                       /\ UNCHANGED <<programId, tokenAccount>>
  /\ UNCHANGED <<nItems, calls, umiIdentity, pass, first, thrown, result>>
  /\ UNCHANGED sendVars
  /\ UNCHANGED enrichVars

\* buildCoreBurnVariants returns or throws
CoreBuild ==
  /\ pc = "coreBuild"
  /\ \E ans \in CoreAnswers :
       LET b == buildCoreBurnVariants(ans, umiIdentity)
           chosen == IF Len(b.withCollection) # 0 THEN b.withCollection
                     ELSE b.withoutCollection
       IN /\ Ask("core", ans)
          /\ umiIdentity' = b.umi
          /\ IF b.threw THEN Skip("core build failed: asset not found")
             ELSE IF Len(chosen) = 0 THEN Skip("core burn: no viable instructions")
             ELSE /\ pending' = chosen
                  /\ pc' = "coreSim"
                  /\ UNCHANGED <<skipped, prepared, i, it, programId, tokenAccount, candIdx>>
  /\ called("buildCoreBurnVariants")
  /\ UNCHANGED <<nItems, rawItems, variants, simLog, pass, first, thrown, result>>
  /\ UNCHANGED sendVars
  /\ UNCHANGED enrichVars

\* the 'core-pick' simulation returns; its result is only logged
CoreSim ==
  /\ pc = "coreSim"
  /\ \E raw \in SimRaw :
       LET sim == simulateIxs(raw) IN
         /\ Ask("core-pick", sim.ok)
         /\ simLog' = Append(simLog, [name |-> "core-pick", ok |-> sim.ok])
         /\ IF sim.threw THEN Skip("core build failed: simulation threw")
            ELSE Prepare(pending, "core")
  /\ called("simulateIxs")
  /\ UNCHANGED <<nItems, rawItems, variants, umiIdentity, pass, first, thrown, result>>
  /\ UNCHANGED sendVars
  /\ UNCHANGED enrichVars

\* getMintProgramId returns or throws (caught by the catch of the iteration)
MintRead ==
  /\ pc = "mintRead"
  /\ \E ans \in MintAnswers :
       /\ Ask("mint", ans)
       /\ IF ans = "missing" THEN Skip("error: Mint not found")
          ELSE IF ans = "rpcError" THEN Skip("error: rpc failure")
          ELSE /\ withProgram(it, IF ans = "TOKEN_2022" THEN "TOKEN_2022" ELSE "TOKEN")
               /\ UNCHANGED <<skipped, prepared, i, it, candIdx, pending>>
  /\ called("getMintProgramId")
  /\ UNCHANGED <<nItems, rawItems, variants, simLog, umiIdentity, pass, first,
                 thrown, result>>
  /\ UNCHANGED sendVars
  /\ UNCHANGED enrichVars

\* getAccountInfo(tokenAccount) returns or throws
TaRead ==
  /\ pc = "taRead"
  /\ \E ans \in AccountAnswers :
       /\ Ask("tokenAccount", ans)
       /\ IF ans = "missing" THEN Skip("token account not found")
          ELSE IF ans = "rpcError" THEN Skip("error: rpc failure")
          ELSE /\ tokenAccount' = IF ans # programId
                                  THEN resolveAtaByMintProgram(programId)
                                  ELSE tokenAccount
               /\ pc' = "pnftBuild"
               /\ UNCHANGED <<skipped, prepared, i, it, programId, candIdx, pending>>
  /\ called("getAccountInfo")
  /\ UNCHANGED <<nItems, rawItems, variants, simLog, umiIdentity, pass, first,
                 thrown, result>>
  /\ UNCHANGED sendVars
  /\ UNCHANGED enrichVars

\* push of a bare-token item
PrepareSpl == Prepare(splBurnIxs(tokenAccount, programId), "spl")

\* buildPnftVariants returns
PnftBuild ==
  /\ pc = "pnftBuild"
  /\ \E ans \in PnftAnswers :
       LET b == buildPnftVariants(ans, tokenAccount, it.collectionMintHint, umiIdentity)
           k == nextCand(b.variants, 1)
       IN /\ Ask("pnft", ans)
          /\ umiIdentity' = b.umi
          /\ variants' = b.variants
          /\ IF b.variants.found
             THEN \* burnOnly always exists: the first simulation starts
                  /\ candIdx' = k
                  /\ pc' = "pnftSim"
                  /\ UNCHANGED <<skipped, prepared, i, it, programId, tokenAccount, pending>>
             ELSE IF deepClean
             THEN /\ pc' = "legacyBuild"
                  /\ UNCHANGED <<skipped, prepared, i, it, programId, tokenAccount,
                                 candIdx, pending>>
             ELSE PrepareSpl
  /\ called("buildPnftVariants")
  /\ UNCHANGED <<nItems, rawItems, simLog, pass, first, thrown, result>>
  /\ UNCHANGED sendVars
  /\ UNCHANGED enrichVars

\* what is pushed once the pNFT pick has produced pnftIxs
pushPnft(pnftIxs) ==
  IF deepClean THEN Prepare(pnftIxs, "pnft") ELSE PrepareSpl

\* the candidate kept when candidate `cand` simulated with result sim: the
\* candidate itself if accepted, else <<>> (keep looking)
pickOnSim(cand, sim) == IF sim.ok THEN cand.ixs ELSE <<>>

\* one 'pnft-pick' simulation returns
PnftSim ==
  /\ pc = "pnftSim"
  /\ \E raw \in SimRaw :
       LET cand == order(variants)[candIdx]
           sim == simulateIxs(raw)
           picked == pickOnSim(cand, sim)
           k == nextCand(variants, candIdx + 1)
       IN /\ Ask(cand.name, sim.ok)
          /\ simLog' = Append(simLog, [name |-> cand.name, ok |-> sim.ok])
          /\ IF sim.threw THEN Skip("error: simulation threw")
             ELSE IF picked # <<>> THEN pushPnft(picked)
             ELSE IF k <= 4
             THEN /\ candIdx' = k
                  /\ UNCHANGED <<pc, skipped, prepared, i, it, programId, tokenAccount, pending>>
             ELSE pushPnft(fallbackPick(variants))
  /\ called("simulateIxs")
  /\ UNCHANGED <<nItems, rawItems, variants, umiIdentity, pass, first, thrown, result>>
  /\ UNCHANGED sendVars
  /\ UNCHANGED enrichVars

\* buildLegacyTmBurn returns
LegacyBuild ==
  /\ pc = "legacyBuild"
  /\ \E ans \in LegacyAnswers :
       LET b == buildLegacyTmBurn(ans, tokenAccount, programId, umiIdentity) IN
         /\ Ask("legacy", ans)
         /\ umiIdentity' = b.umi
         /\ IF b.ixs # <<>>
            THEN /\ pending' = b.ixs
                 /\ pc' = "legacySim"
                 /\ UNCHANGED <<skipped, prepared, i, it, programId, tokenAccount, candIdx>>
            ELSE PrepareSpl
  /\ called("buildLegacyTmBurn")
  /\ UNCHANGED <<nItems, rawItems, variants, simLog, pass, first, thrown, result>>
  /\ UNCHANGED sendVars
  /\ UNCHANGED enrichVars

\* the 'legacy-tm-check' simulation returns
LegacySim ==
  /\ pc = "legacySim"
  /\ \E raw \in SimRaw :
       LET sim == simulateIxs(raw) IN
         /\ Ask("legacy-tm-check", sim.ok)
         /\ simLog' = Append(simLog, [name |-> "legacy-tm-check", ok |-> sim.ok])
         /\ IF sim.threw THEN Skip("error: simulation threw")
            ELSE IF sim.ok THEN Prepare(pending, "spl")
            ELSE PrepareSpl
  /\ called("simulateIxs")
  /\ UNCHANGED <<nItems, rawItems, variants, umiIdentity, pass, first, thrown, result>>
  /\ UNCHANGED sendVars
  /\ UNCHANGED enrichVars

\* mutateAsync is called again with the same rawItems while the account state
\* and the simulation outcomes stay what the first call met
Rerun ==
  /\ pc = "plan"
  /\ pass = 1
  /\ pass' = 2
  /\ first' = [skipped |-> skipped, prepared |-> prepared]
  /\ pc' = IF nItems = 0 THEN "plan" ELSE "item"
  /\ rawItems' = <<>>
  /\ i' = 1
  /\ skipped' = <<>>
  /\ prepared' = <<>>
  /\ simLog' = <<>>
  /\ variants' = NoVariants
  /\ calls' = {}
  /\ UNCHANGED <<nItems, it, programId, tokenAccount, candIdx, pending,
                 umiIdentity, oracle, thrown, result>>
  /\ UNCHANGED sendVars
  /\ UNCHANGED enrichVars

\* --------------------------------------------------- mutateAsync: grouping

\* Array.prototype.slice(a, b) with 0-based a, b on a 1-based sequence
slice(s, a, b) == SubSeq(s, a + 1, IF b > Len(s) THEN Len(s) ELSE b)

heavyCount(prep) == Cardinality({k \in 1..Len(prep) : prep[k].kind # "spl"})

\* mutant of MAX_PER_TX: the cap of the heavy kinds applied to every list
MAX_PER_TXAlwaysHeavy(prep) == MAX_PER_TX_HEAVY

MAX_PER_TX(prep) ==
  IF heavyCount(prep) = 0 THEN MAX_PER_TX_LIGHT ELSE MAX_PER_TX_HEAVY

toGroupItem(p) == [mint |-> p.mint, ixs |-> p.ixs]

\* the grouping loop: slices of MAX_PER_TX items, empty slices not pushed
groupsOf(prep) ==
  LET m == MAX_PER_TX(prep)
      n == Len(prep)
      all == [g \in 1..((n + m - 1) \div m) |->
                LET sl == slice(prep, (g - 1) * m, g * m)
                IN [k \in 1..Len(sl) |-> toGroupItem(sl[k])]]
  IN SelectSeq(all, LAMBDA sl : Len(sl) # 0)

\* grouping, then `return { ok: [], skipped }` or the call of sendGroups
Plan ==
  /\ pc = "plan"
  /\ LET groups == groupsOf(prepared) IN
       IF Len(groups) = 0
       THEN /\ pc' = "done"
            /\ result' = [ok |-> <<>>, skipped |-> skipped]
            /\ UNCHANGED <<queue, qmeta>>
       ELSE /\ pc' = "loop"
            /\ queue' = groups
            /\ qmeta' = [g \in 1..Len(groups) |->
                           [depth |-> 0, root |-> Len(groups[g])]]
            /\ result' = result
  /\ simLog' = <<>>
  /\ variants' = NoVariants
  /\ UNCHANGED <<nItems, rawItems, it, i, skipped, prepared, programId,
                 tokenAccount, candIdx, pending, calls, umiIdentity,
                 group, inflight, ok, sent, declined, splits, simSeen, caught,
                 pass, oracle, first, thrown>>
  /\ UNCHANGED enrichVars

\* ---------------------------------------------------------------- sendGroups

\* the transaction's instructions: two ComputeBudget instructions, then the
\* flattened instructions of the group
RECURSIVE flatIxs(_)
flatIxs(g) == IF g = <<>> THEN <<>> ELSE Head(g).ixs \o flatIxs(Tail(g))

finalIxs(g) ==
  <<Ix("setComputeUnitLimit", FALSE, "ComputeBudget", "", FALSE, ""),
    Ix("setComputeUnitPrice", FALSE, "ComputeBudget", "", FALSE, "")>> \o flatIxs(g)

\* the signature the cluster gives the transaction of group g
sigOf(g) == [first |-> g[1].mint, count |-> Len(g)]

\* mutants of shouldSplit: any failed simulation splits; an oversized group is
\* split whatever its length
shouldSplitAnyFailure(simRes, g) == ~simRes.ok /\ Len(g) > 1

shouldSplitNoSizeTest(simRes, g) ==
  ~simRes.ok /\ isTooLargeErr([type |-> "string", text |-> simRes.errStr])

\* `if (!simRes.ok) { if (tooLarge) { if (group.length > 1)`
shouldSplit(simRes, g) ==
  /\ ~simRes.ok
  /\ isTooLargeErr([type |-> "string", text |-> simRes.errStr])
  /\ Len(g) > 1

\* mutants of splitGroup: the midpoint rounded up; one item peeled off
splitGroupCeil(g) ==
  LET mid == (Len(g) + 1) \div 2 IN <<slice(g, 0, mid), slice(g, mid, Len(g))>>

splitGroupPeel(g) == <<slice(g, 0, 1), slice(g, 1, Len(g))>>

\* group.slice(0, mid), group.slice(mid)
splitGroup(g) ==
  LET mid == Len(g) \div 2 IN <<slice(g, 0, mid), slice(g, mid, Len(g))>>

\* mutant of unshift: only the first half is put back
unshiftFirstHalf(q, halves) == <<halves[1]>> \o q

\* mutant of unshift: the halves are put behind the waiting groups (push)
unshiftBack(q, halves) == q \o halves

\* queue.unshift(a, b)
unshift(q, halves) == halves \o q

\* mutant of pushOk: the items of the group are recorded last to first
pushOkReversed(okList, g, sig) ==
  okList \o [k \in 1..Len(g) |-> [mint |-> g[Len(g) + 1 - k].mint, sig |-> sig]]

\* mutant of pushOk: only the first item of the group is recorded
pushOkFirstOnly(okList, g, sig) ==
  Append(okList, [mint |-> g[1].mint, sig |-> sig])

\* ok.push(...group.map(({ mint }) => ({ mint, sig })))
pushOk(okList, g, sig) ==
  okList \o [k \in 1..Len(g) |-> [mint |-> g[k].mint, sig |-> sig]]

\* mutant of isUserReject: the message is not lower-cased before the test
isUserRejectCaseSensitive(text) ==
  includes(text, "reject") \/ includes(text, "denied") \/ includes(text, "cancel")

\* the test of the catch block on the lower-cased message
isUserReject(text) ==
  LET msg == toLowerCase(text) IN
    includes(msg, "reject") \/ includes(msg, "denied") \/ includes(msg, "cancel")

\* back to `while (queue.length)`: next group, or return ok and, in
\* mutateAsync, return { ok, skipped }
loopOrReturn(q, okList) ==
  IF Len(q) # 0
  THEN /\ pc' = "loop"
       /\ result' = result
  ELSE /\ pc' = "done"
       /\ result' = [ok |-> okList, skipped |-> skipped]

\* mutant of catchSend: every error is swallowed and the loop goes on
catchSendContinue(text) ==
  /\ caught' = [group |-> group, text |-> text]
  /\ declined' = declined \cup {group}
  /\ thrown' = thrown
  /\ loopOrReturn(queue, ok)

\* the catch block of the submission: continue on a user rejection, else rethrow
catchSend(text) ==
  /\ caught' = [group |-> group, text |-> text]
  /\ IF isUserReject(text)
     THEN /\ declined' = declined \cup {group}
          /\ thrown' = thrown
          /\ loopOrReturn(queue, ok)
     ELSE /\ thrown' = text
          /\ pc' = "thrown"
          /\ UNCHANGED <<declined, result>>

resUnchanged == UNCHANGED <<nItems, rawItems, it, i, skipped, prepared, programId,
                            tokenAccount, variants, candIdx, pending, simLog,
                            calls, umiIdentity, pass, oracle, first,
                            mounted, effects, enrichQueue, nfts, isEnriching, runs>>

\* the outcome of a simulation as the dispatcher tells it apart: accepted,
\* oversized (isTooLargeErr on the error text), or failed otherwise, by an err
\* of the dry run ("rejected") or by an exception ("threw")
simOutcome(raw) ==
  IF raw.kind = "ok" THEN "accepted"
  ELSE IF isTooLargeErr([type |-> "string", text |-> raw.text]) THEN "oversized"
  ELSE IF raw.kind = "threw" THEN "threw"
  ELSE "rejected"

\* queue.shift(), the diagnostic simulation returns, split or go on to submit;
\* the call is outside the try block: an exception leaving simulateIxs would
\* leave sendGroups and mutateAsync
SimulateGroup ==
  /\ pc = "loop"
  /\ \E raw \in SimRaw :
       LET g == Head(queue)
           m == Head(qmeta)
           simRes == simulateIxs(raw)
       IN /\ simSeen' = simOutcome(raw)
          /\ IF simRes.threw
             THEN /\ queue' = Tail(queue)
                  /\ qmeta' = Tail(qmeta)
                  /\ group' = g
                  /\ pc' = "thrown"
                  /\ thrown' = simRes.errStr
                  /\ splits' = splits
             ELSE IF shouldSplit(simRes, g)
             THEN /\ queue' = unshift(Tail(queue), splitGroup(g))
                  /\ qmeta' = <<[m EXCEPT !.depth = @ + 1], [m EXCEPT !.depth = @ + 1]>>
                                \o Tail(qmeta)
                  /\ splits' = splits \cup {g}
                  /\ UNCHANGED <<pc, group, thrown>>
             ELSE /\ queue' = Tail(queue)
                  /\ qmeta' = Tail(qmeta)
                  /\ group' = g
                  /\ pc' = "fetch"
                  /\ splits' = splits
                  /\ thrown' = thrown
  /\ caught' = NoCaught
  /\ UNCHANGED <<inflight, ok, sent, declined, result>>
  /\ resUnchanged

\* mutant of awaitSign: the wallet call is not awaited, the loop goes on
awaitSignDetached(q) == IF Len(q) # 0 THEN "loop" ELSE "done"

\* `await signAndSendTransaction(...)`: sendGroups is suspended until the
\* wallet call settles, whatever is left in the queue
awaitSign(q) == "wallet1"

\* mutant of minContextSlot: a slot kept from an earlier fetch is passed
minContextSlotStale(context) == 1

\* the second argument of signAndSendTransaction(tx, context.slot)
minContextSlot(context) == context.slot

\* getLatestBlockhashAndContext('confirmed') returns or throws; on return the
\* transaction is built and handed to signAndSendTransaction, which calls the
\* wallet with skipPreflight: true
FetchContext ==
  /\ pc = "fetch"
  /\ \/ \E context \in [slot : 1..MaxSlot] :
          /\ inflight' = [slot |-> minContextSlot(context), fetched |-> context.slot,
                          skipPreflight |-> TRUE, firstErr |-> ""]
          /\ sent' = sent \cup {group}
          /\ pc' = awaitSign(queue)
          /\ UNCHANGED <<declined, caught, thrown, result, group>>
     \/ \E text \in FetchErrTexts :
          /\ catchSend(text)
          /\ group' = <<>>
          /\ UNCHANGED <<inflight, sent>>
  /\ simSeen' = "none"
  /\ UNCHANGED <<queue, qmeta, ok, splits>>
  /\ resUnchanged

\* the wallet call with options returns a signature or fails; any failure
\* makes signAndSendTransaction call again without options
WalletFirst ==
  /\ pc = "wallet1"
  /\ \/ /\ ok' = pushOk(ok, group, sigOf(group))
        /\ loopOrReturn(queue, ok')
        /\ inflight' = NoInflight
        /\ group' = <<>>
     \/ \E text \in WalletErrTexts \cup {"skipPreflight is not supported"} :
          /\ inflight' = [inflight EXCEPT !.skipPreflight = FALSE, !.firstErr = text]
          /\ pc' = "wallet2"
          /\ UNCHANGED <<ok, result, group>>
  /\ UNCHANGED <<queue, qmeta, sent, declined, splits, simSeen, caught, thrown>>
  /\ resUnchanged

\* the wallet call without options returns a signature or fails
WalletSecond ==
  /\ pc = "wallet2"
  /\ \/ /\ ok' = pushOk(ok, group, sigOf(group))
        /\ loopOrReturn(queue, ok')
        /\ UNCHANGED <<declined, caught, thrown>>
     \/ \E text \in WalletErrTexts :
          /\ catchSend(text)
          /\ ok' = ok
  /\ inflight' = NoInflight
  /\ group' = <<>>
  /\ UNCHANGED <<queue, qmeta, sent, splits, simSeen>>
  /\ resUnchanged

\* ------------------------------------------------------------ specifications

\* useNftEnrichment is not mounted
NoEnrichment ==
  /\ mounted = FALSE
  /\ effects = 0
  /\ enrichQueue = 0
  /\ nfts = <<>>
  /\ isEnriching = FALSE
  /\ runs = <<>>

\* a whole run of mutateAsync on a list of at most MaxItems descriptors
Init ==
  /\ NoEnrichment
  /\ pc = "start"
  /\ nItems \in 0..MaxItems
  /\ rawItems = <<>>
  /\ it = NoItem
  /\ i = 1
  /\ skipped = <<>>
  /\ prepared = <<>>
  /\ programId = "none"
  /\ tokenAccount = "none"
  /\ variants = NoVariants
  /\ candIdx = 0
  /\ pending = <<>>
  /\ simLog = <<>>
  /\ calls = {}
  /\ umiIdentity \in {"null", "owner"}
  /\ splits = {}
  /\ simSeen = "none"
  /\ caught = NoCaught
  /\ pass = 0
  /\ oracle = <<>>
  /\ first = NoFirst
  /\ queue = <<>>
  /\ qmeta = <<>>
  /\ group = <<>>
  /\ inflight = NoInflight
  /\ ok = <<>>
  /\ sent = {}
  /\ declined = {}
  /\ thrown = ""
  /\ result = NoResult

NextSend ==
  \/ Plan
  \/ SimulateGroup
  \/ FetchContext
  \/ WalletFirst
  \/ WalletSecond

Next ==
  \/ Start
  \/ BeginItem
  \/ CoreBuild
  \/ CoreSim
  \/ MintRead
  \/ TaRead
  \/ PnftBuild
  \/ PnftSim
  \/ LegacyBuild
  \/ LegacySim
  \/ NextSend

Spec == Init /\ [][Next]_vars

\* a prepared list as the resolution pass leaves it: n items, all bare-token,
\* or with a rule-protected item first, or with a core item last
sampleItem(k, kind) ==
  [mint |-> k, kind |-> kind,
   ixs |-> IF kind = "spl" THEN splBurnIxs("ATA_TOKEN", "TOKEN")
           ELSE IF kind = "pnft"
           THEN <<Ix("burnV1", FALSE, "TM", "ATA_TOKEN", FALSE, "owner")>>
           ELSE <<Ix("coreBurn", FALSE, "CORE", "asset", FALSE, "owner")>>]

PreparedLists(maxLen) ==
  UNION {{[k \in 1..n |-> sampleItem(k, "spl")],
          [k \in 1..n |-> sampleItem(k, IF k = 1 THEN "pnft" ELSE "spl")],
          [k \in 1..n |-> sampleItem(k, IF k = n THEN "core" ELSE "spl")]}
         : n \in 1..maxLen}

\* the state of a run whose resolution pass has prepared every item
AfterResolution(prep) ==
  /\ pc = "plan"
  /\ prepared = prep
  /\ nItems = Len(prep)
  /\ rawItems = [k \in 1..Len(prep) |->
                   [mint |-> k, isCompressed |-> FALSE,
                    isCoreHint |-> prep[k].kind = "core"]]
  /\ it = NoItem
  /\ i = Len(prep) + 1
  /\ skipped = <<>>
  /\ programId = "none"
  /\ tokenAccount = "none"
  /\ variants = NoVariants
  /\ candIdx = 0
  /\ pending = <<>>
  /\ simLog = <<>>
  /\ calls = {[mint |-> k,
                call |-> IF prep[k].kind = "core" THEN "buildCoreBurnVariants"
                         ELSE "buildPnftVariants"] : k \in 1..Len(prep)}
  /\ umiIdentity = "owner"
  /\ splits = {}
  /\ simSeen = "none"
  /\ caught = NoCaught
  /\ pass = 0
  /\ oracle = <<>>
  /\ first = NoFirst
  /\ queue = <<>>
  /\ qmeta = <<>>
  /\ group = <<>>
  /\ inflight = NoInflight
  /\ ok = <<>>
  /\ sent = {}
  /\ declined = {}
  /\ thrown = ""
  /\ result = NoResult

\* grouping and dispatch of a prepared list of at most MaxPrepared items
InitSend ==
  /\ NoEnrichment
  /\ \E prep \in PreparedLists(MaxPrepared) : AfterResolution(prep)

SpecSend == InitSend /\ [][NextSend]_vars

\* the same, every awaited call (simulation, context fetch, wallet) returning
\* eventually
SpecSendFair == SpecSend /\ WF_vars(NextSend)

\* a prepared item of the legacy path: the Token Metadata burn that simulated
\* accepted, pushed with kind 'spl'
sampleLegacy(k) ==
  [mint |-> k, kind |-> "spl",
   ixs |-> buildLegacyTmBurn("metadata", "ATA_TOKEN", "TOKEN", "owner").ixs]

\* prepared lists of n items: all bare-token, all legacy, or bare-token but for
\* one rule-protected, core or legacy item at position h
PlannedLists(maxLen) ==
  UNION {{[k \in 1..n |-> sampleItem(k, "spl")],
          [k \in 1..n |-> sampleLegacy(k)]}
         \cup {[k \in 1..n |-> IF k = h THEN sampleItem(k, "pnft")
                                 ELSE sampleItem(k, "spl")] : h \in 1..n}
         \cup {[k \in 1..n |-> IF k = h THEN sampleItem(k, "core")
                                 ELSE sampleItem(k, "spl")] : h \in 1..n}
         \cup {[k \in 1..n |-> IF k = h THEN sampleLegacy(k)
                                 ELSE sampleItem(k, "spl")] : h \in 1..n}
         : n \in 0..maxLen}

\* the grouping step alone, on a prepared list of at most MaxPlanned items
InitPlan ==
  /\ NoEnrichment
  /\ \E prep \in PlannedLists(MaxPlanned) : AfterResolution(prep)

NextPlan == Plan

SpecPlan == InitPlan /\ [][NextPlan]_vars

\* the resolution pass run twice on the same single descriptor, the umi
\* instance (and the identity installed in it) being kept between the two
InitTwice ==
  /\ NoEnrichment
  /\ pc = "item"
  /\ nItems = 1
  /\ rawItems = <<>>
  /\ it = NoItem
  /\ i = 1
  /\ skipped = <<>>
  /\ prepared = <<>>
  /\ programId = "none"
  /\ tokenAccount = "none"
  /\ variants = NoVariants
  /\ candIdx = 0
  /\ pending = <<>>
  /\ simLog = <<>>
  /\ calls = {}
  /\ umiIdentity = "null"
  /\ queue = <<>>
  /\ qmeta = <<>>
  /\ group = <<>>
  /\ inflight = NoInflight
  /\ ok = <<>>
  /\ sent = {}
  /\ declined = {}
  /\ splits = {}
  /\ simSeen = "none"
  /\ caught = NoCaught
  /\ pass = 1
  /\ oracle = <<>>
  /\ first = NoFirst
  /\ thrown = ""
  /\ result = NoResult

NextTwice ==
  \/ BeginItem
  \/ CoreBuild
  \/ CoreSim
  \/ MintRead
  \/ TaRead
  \/ PnftBuild
  \/ PnftSim
  \/ LegacyBuild
  \/ LegacySim
  \/ Rerun

SpecTwice == InitTwice /\ [][NextTwice]_vars


\* ------------------------------------------------------ useNftEnrichment

\* lengths of the work list (queue) the renders are drawn from
WorkListSizes == {0, BATCH, MaxAssets}

\* end of queue.slice(idx, idx + BATCH) on a queue of `len` assets
sliceEnd(idx, len) == IF idx + BATCH > len THEN len ELSE idx + BATCH

\* run() up to its first await: idx = 0, the while condition holds (the queue
\* is not empty), the first slice is taken, idx += BATCH, Promise.all awaited
newRun(len) ==
  [aborted |-> FALSE, len |-> len, idx |-> BATCH, lo |-> 0,
   hi |-> sliceEnd(0, len), at |-> "slice"]

\* the cleanup function of the latest effect: aborted = true in its closure
cleanup(rs) ==
  IF rs = <<>> THEN rs ELSE [rs EXCEPT ![Len(rs)].aborted = TRUE]

\* setNfts((curr) => curr.map((c) => byId.get(c.id) ?? c)) with the assets
\* lo+1..hi of the queue enriched by run r
setNfts(curr, lo, hi, r) ==
  [k \in 1..Len(curr) |-> IF k \in (lo + 1)..hi THEN r ELSE curr[k]]

\* mutant of breakIfAborted: the flag is not tested after the slice resolved
breakIfAbortedNever(aborted) == FALSE

\* `if (aborted) break` after the await of the slice
breakIfAborted(aborted) == aborted

\* mutant of finallyClear: the flag is cleared by every run that ends
finallyClearAlways(aborted, flag) == FALSE

\* `finally { if (!aborted) setIsEnriching(false) }`: the new isEnriching
finallyClear(aborted, flag) == IF ~aborted THEN FALSE ELSE flag

\* the body of the effect on a queue of n assets, after the cleanup of the
\* previous effect: nothing to do, or run() is called
effect(n) ==
  /\ effects' = effects + 1
  /\ IF n = 0
     THEN /\ isEnriching' = FALSE
          /\ runs' = cleanup(runs)
     ELSE /\ isEnriching' = TRUE
          /\ runs' = Append(cleanup(runs), newRun(n))

\* rawNfts changes: nfts is reset to it, the queue is recomputed, the effect
\* is cleaned up and invoked again
ChangeRawNfts ==
  /\ mounted
  /\ effects < MaxEffects
  /\ \E n \in WorkListSizes :
       /\ enrichQueue' = n
       /\ nfts' = [k \in 1..n |-> 0]
       /\ effect(n)
  /\ UNCHANGED mounted
  /\ UNCHANGED burnVars

\* connection changes: the effect is cleaned up and invoked again on the
\* same queue
ChangeConnection ==
  /\ mounted
  /\ effects < MaxEffects
  /\ effect(enrichQueue)
  /\ UNCHANGED <<mounted, enrichQueue, nfts>>
  /\ UNCHANGED burnVars

\* the Promise.all of the slice awaited by run r resolves
SliceResolved(r) ==
  /\ r \in 1..Len(runs)
  /\ runs[r].at = "slice"
  /\ LET run == runs[r]
         brk == breakIfAborted(run.aborted)
     IN /\ nfts' = IF brk THEN nfts ELSE setNfts(nfts, run.lo, run.hi, r)
        /\ IF ~brk /\ run.idx < run.len
           THEN /\ runs' = [runs EXCEPT ![r].at = "sleep"]
                /\ isEnriching' = isEnriching
           ELSE /\ runs' = [runs EXCEPT ![r].at = IF brk THEN "broke" ELSE "done"]
                /\ isEnriching' = finallyClear(run.aborted, isEnriching)
  /\ UNCHANGED <<mounted, effects, enrichQueue>>
  /\ UNCHANGED burnVars

\* the sleep between two slices of run r ends: the while condition is tested
SleepDone(r) ==
  /\ r \in 1..Len(runs)
  /\ runs[r].at = "sleep"
  /\ LET run == runs[r] IN
       IF run.idx < run.len /\ ~run.aborted
       THEN /\ runs' = [runs EXCEPT ![r].lo = run.idx,
                                    ![r].hi = sliceEnd(run.idx, run.len),
                                    ![r].idx = run.idx + BATCH,
                                    ![r].at = "slice"]
            /\ isEnriching' = isEnriching
       ELSE /\ runs' = [runs EXCEPT ![r].at = "left"]
            /\ isEnriching' = finallyClear(run.aborted, isEnriching)
  /\ UNCHANGED <<mounted, effects, enrichQueue, nfts>>
  /\ UNCHANGED burnVars

\* the component is unmounted: the latest effect is cleaned up
Unmount ==
  /\ mounted
  /\ mounted' = FALSE
  /\ runs' = cleanup(runs)
  /\ UNCHANGED <<effects, enrichQueue, nfts, isEnriching>>
  /\ UNCHANGED burnVars

\* the hook after its first render and the first invocation of its effects
InitEnrich ==
  /\ AfterResolution(<<>>)
  /\ mounted = TRUE
  /\ effects = 1
  /\ \E n \in WorkListSizes :
       /\ enrichQueue = n
       /\ nfts = [k \in 1..n |-> 0]
       /\ isEnriching = (n # 0)
       /\ runs = IF n = 0 THEN <<>> ELSE <<newRun(n)>>

NextEnrich ==
  \/ ChangeRawNfts
  \/ ChangeConnection
  \/ \E r \in 1..MaxEffects : SliceResolved(r)
  \/ \E r \in 1..MaxEffects : SleepDone(r)
  \/ Unmount

SpecEnrich == InitEnrich /\ [][NextEnrich]_vars

\* the same, every awaited slice resolving and every sleep ending eventually
SpecEnrichFair ==
  /\ SpecEnrich
  /\ \A r \in 1..MaxEffects : WF_vars(SliceResolved(r)) /\ WF_vars(SleepDone(r))

\* ------------------------------------------------------------------- claims

Range(f) == {f[k] : k \in DOMAIN f}

mintsOf(g) == {g[k].mint : k \in 1..Len(g)}

\* the groups the dispatcher holds or has handled
knownGroups == Range(queue) \cup {group} \cup sent \cup splits \cup declined

\* error texts that name a rejection, a denial or a cancellation
RejectTexts == {"User rejected the request", "Sign request CANCELLED", "Permission denied"}

\* smallest d with 2^d >= n
RECURSIVE CeilLog2(_)
CeilLog2(n) == IF n <= 1 THEN 0 ELSE 1 + CeilLog2((n + 1) \div 2)

\* C1 (as claimed): when mutateAsync returns, the succeeded and the skipped
\* records together number the input descriptors.
C1_EveryAssetAccounted ==
  pc = "done" => Len(result.ok) + Len(result.skipped) = nItems

C3_CompressedUntouched ==
  \A k \in 1..Len(rawItems) :
    rawItems[k].isCompressed =>
      /\ \A c \in calls : c.mint # k
      /\ \A p \in Range(prepared) : p.mint # k
      /\ \A g \in knownGroups : k \notin mintsOf(g)

C3_Witness ==
  /\ pc = "done"
  /\ nItems >= 1
  /\ rawItems[nItems].isCompressed
  /\ ~rawItems[nItems].isCoreHint
  /\ \E r \in Range(result.skipped) : r.mint = nItems

\* C4: a split replaces the group at the head of the queue by two groups of
\* floor(n/2) and ceil(n/2) items whose concatenation is the group, in front of
\* the groups already waiting; no queued or dequeued group is ever empty.
C4_SplitHalves ==
  /\ [](\A k \in 1..Len(queue) : Len(queue[k]) >= 1)
  /\ [](pc \in {"fetch", "wallet1", "wallet2"} => Len(group) >= 1)
  /\ [][(pc = "loop" /\ pc' = "loop" /\ queue' # queue) =>
          LET g == Head(queue)
              n == Len(g)
          IN /\ n > 1
             /\ Len(queue') = Len(queue) + 1
             /\ Len(queue'[1]) = n \div 2
             /\ Len(queue'[2]) = n - (n \div 2)
             /\ queue'[1] \o queue'[2] = g
             /\ SubSeq(queue', 3, Len(queue')) = Tail(queue)]_vars

C4_Witness ==
  /\ Len(queue) >= 2
  /\ qmeta[1].depth = 1
  /\ qmeta[1].root = 7
  /\ Len(queue[1]) = 3
  /\ Len(queue[2]) = 4

\* C5: a group reached by d splits from an initial group of n items has
\* d <= ceil(log2(n)), and d < ceil(log2(n)) while it can still be split.
C5_SplitDepthBounded ==
  \A k \in 1..Len(queue) :
    /\ qmeta[k].depth <= CeilLog2(qmeta[k].root)
    /\ Len(queue[k]) > 1 => qmeta[k].depth < CeilLog2(qmeta[k].root)

C5_Witness ==
  \E k \in 1..Len(queue) :
    /\ qmeta[k].root = 7
    /\ qmeta[k].depth = 3
    /\ Len(queue[k]) = 1

\* the candidates of a rule-protected asset in the claimed priority order
claimedOrder(v) ==
  SelectSeq(<<[name |-> "burn only (with rules)", ixs |-> v.burnOnlyWithRules],
              [name |-> "burn only (no rules)", ixs |-> v.burnOnly],
              [name |-> "unlock+burn (with rules)", ixs |-> v.unlockThenBurnWithRules],
              [name |-> "unlock+burn (no rules)", ixs |-> v.unlockThenBurn]>>,
            LAMBDA c : c.ixs # <<>>)

\* C6: the candidates of a rule-protected asset are simulated in the order
\* burn-with-rules, burn-without-rules, unlock-then-burn-with-rules,
\* unlock-then-burn-without-rules; the first accepted one is selected and
\* none is simulated after it.
C6_FirstAcceptedInPriorityOrder ==
  LET exp == claimedOrder(variants)
      n == Len(simLog)
  IN /\ (variants.found /\ pc = "pnftSim") =>
          /\ n < Len(exp)
          /\ \A j \in 1..n : simLog[j].name = exp[j].name /\ ~simLog[j].ok
     /\ (variants.found /\ pc \in {"item", "plan"}) =>
          /\ n >= 1
          /\ n <= Len(exp)
          /\ \A j \in 1..n : simLog[j].name = exp[j].name
          /\ \A j \in 1..(n - 1) : ~simLog[j].ok
          /\ Len(prepared) >= 1
          /\ prepared[Len(prepared)].mint = i - 1
          /\ prepared[Len(prepared)].kind = "pnft"
          /\ simLog[n].ok => prepared[Len(prepared)].ixs = exp[n].ixs
          /\ ~simLog[n].ok => n = Len(exp)

C6_Witness ==
  /\ pc = "plan"
  /\ variants.found
  /\ variants.burnOnlyWithRules # <<>>
  /\ simLog = <<[name |-> "burn only (with rules)", ok |-> FALSE],
                [name |-> "burn only (no rules)", ok |-> TRUE]>>
  /\ prepared[Len(prepared)].ixs = variants.burnOnly

\* C7: a second resolution of the same descriptor against the same account
\* state and simulation outcomes prepares the same kind and instructions, or
\* skips with the same reason, as the first.
C7_SameChoiceTwice ==
  (pass = 2 /\ pc = "plan") =>
    first = [skipped |-> skipped, prepared |-> prepared]

C7_Witness ==
  /\ pass = 2
  /\ pc = "plan"
  /\ Len(prepared) = 1
  /\ prepared[1].kind = "pnft"
  /\ Len(prepared[1].ixs) = 2

\* the two halves of a group, as the claim states them
claimedHalves(g) ==
  <<SubSeq(g, 1, Len(g) \div 2), SubSeq(g, (Len(g) \div 2) + 1, Len(g))>>

signedGroups == sent \ declined

\* C8: when a run returns in which a split group's two halves were both signed,
\* the transactions submitted for its assets are exactly the two halves, the
\* group itself was never submitted, and each of its assets is recorded as
\* succeeded once, under the signature of its half.
C8_SplitThenTwoTransactions ==
  pc = "done" =>
    \A g \in splits :
      LET h == claimedHalves(g) IN
        (h[1] \in signedGroups /\ h[2] \in signedGroups) =>
          /\ g \notin sent
          /\ {s \in sent : mintsOf(s) \cap mintsOf(g) # {}} = {h[1], h[2]}
          /\ \A m \in mintsOf(g) :
               Cardinality({j \in 1..Len(result.ok) : result.ok[j].mint = m}) = 1
          /\ Cardinality({e.sig : e \in {x \in Range(result.ok) : x.mint \in mintsOf(g)}}) = 2
          /\ \A x \in 1..2 : \A m \in mintsOf(h[x]) :
               \E e \in Range(result.ok) :
                 e.mint = m /\ \A m2 \in mintsOf(h[x]) :
                   [mint |-> m2, sig |-> e.sig] \in Range(result.ok)

C8_Witness ==
  /\ pc = "done"
  /\ \E g \in splits :
       /\ Len(g) >= 6
       /\ claimedHalves(g)[1] \in signedGroups
       /\ claimedHalves(g)[2] \in signedGroups
       /\ Len(result.ok) = Len(g)

\* C9: an error naming a user rejection or cancellation drops the current group
\* only: nothing is recorded for its assets, nothing is thrown, the queue is
\* left as it is and the loop goes on with its head (or returns if it is empty).
C9_DeclineSkipsGroupOnly ==
  /\ [][(caught' # caught /\ caught'.text \in RejectTexts) =>
          /\ ok' = ok
          /\ skipped' = skipped
          /\ queue' = queue
          /\ thrown' = ""
          /\ pc' = IF queue # <<>> THEN "loop" ELSE "done"
          /\ pc' = "done" => result' = [ok |-> ok, skipped |-> skipped]]_vars
  /\ [][(pc = "loop" /\ caught.text \in RejectTexts) =>
          \/ group' = Head(queue)
          \/ Head(queue) \in splits']_vars
  /\ [](\A g \in declined : \A m \in mintsOf(g) :
          /\ \A e \in Range(ok) : e.mint # m
          /\ \A r \in Range(skipped) : r.mint # m)

C9_Witness ==
  /\ pc = "done"
  /\ Cardinality(sent) = 3
  /\ Cardinality(declined) = 1
  /\ \E g \in declined :
       /\ g \in sent
       /\ \E e \in Range(result.ok) : e.mint < g[1].mint
       /\ \E e \in Range(result.ok) : e.mint > g[Len(g)].mint

\* C10: an error of the submission that names no rejection or cancellation
\* leaves mutateAsync: nothing is simulated or submitted afterwards and no
\* result is returned, whatever was recorded as succeeded before.
C10_FatalErrorAborts ==
  /\ [][(caught' # caught /\ caught'.text # "" /\ caught'.text \notin RejectTexts) =>
          /\ pc' = "thrown"
          /\ thrown' = caught'.text
          /\ result' = NoResult]_vars
  /\ [][pc = "thrown" =>
          /\ pc' = "thrown"
          /\ queue' = queue
          /\ sent' = sent
          /\ ok' = ok
          /\ result' = NoResult]_vars
  /\ [](pc = "thrown" => result = NoResult)

C10_Witness ==
  /\ pc = "thrown"
  /\ thrown = "Transaction simulation failed"
  /\ Len(ok) > 0
  /\ queue # <<>>

\* a prepared item that burns the token and closes its account, nothing else
bareToken(p) ==
  /\ Len(p.ixs) = 2
  /\ p.ixs[1].op = "burn"
  /\ p.ixs[2].op = "closeAccount"

\* the prepared list as one group
wholeGroup == [k \in 1..Len(prepared) |-> toGroupItem(prepared[k])]

\* C11: a run over 1..16 prepared items, all bare-token, in which no group was
\* split and none declined, returns after submitting one transaction, that of
\* the group of all items, every item succeeded under its signature, in order.
C11_OneGroupOneTransaction ==
  (/\ pc = "done"
   /\ Len(prepared) \in 1..16
   /\ \A k \in 1..Len(prepared) : bareToken(prepared[k])
   /\ splits = {}
   /\ declined = {}) =>
    /\ sent = {wholeGroup}
    /\ result.ok = [k \in 1..Len(prepared) |->
                      [mint |-> prepared[k].mint, sig |-> sigOf(wholeGroup)]]

C11_Witness ==
  /\ pc = "done"
  /\ Len(prepared) = 3
  /\ \A k \in 1..3 : bareToken(prepared[k])
  /\ sent = {wholeGroup}
  /\ Len(result.ok) = 3
  /\ Cardinality({result.ok[k].sig : k \in 1..3}) = 1

\* a call is put to the wallet capability
presented == inflight.slot = 0 /\ inflight'.slot # 0

\* the call without options is put to the wallet capability
retried == inflight.slot # 0 /\ inflight.skipPreflight /\ ~inflight'.skipPreflight
             /\ inflight'.slot # 0

\* C12 (as claimed): the first call for a transaction carries skipPreflight =
\* true, and the call without the option is made only after the first call
\* failed because the option was refused.
C12_RetryOnlyWhenOptionRefused ==
  /\ [][presented => inflight'.skipPreflight]_vars
  /\ [][retried => inflight'.firstErr = "skipPreflight is not supported"]_vars

\* C13: simulateIxs lets no exception out: a failed context fetch, compilation
\* or dry run comes back as a result that is not ok and carries the error text;
\* no simulation step of the selector or of the dispatcher ends the run or skips
\* the item.
C13_SimulatorNeverThrows ==
  /\ [](\A raw \in SimRaw :
         LET r == simulateIxs(raw) IN
           /\ ~r.threw
           /\ r.ok = (raw.kind = "ok")
           /\ raw.kind # "ok" => r.errStr = raw.text)
  /\ [][(pc \in {"coreSim", "pnftSim", "legacySim", "loop"}) =>
          /\ pc' # "thrown"
          /\ thrown' = thrown
          /\ skipped' = skipped]_vars

C13_Witness ==
  /\ pc = "fetch"
  /\ simSeen = "threw"
  /\ Len(group) = 1
  /\ thrown = ""

\* the groups the planner has formed, one after the other
RECURSIVE concat(_)
concat(q) == IF q = <<>> THEN <<>> ELSE Head(q) \o concat(Tail(q))

\* the cap as the claim states it: 6 as soon as one prepared item is not a
\* bare-token item (core, rule-protected or legacy), else 16
claimedCap == IF \E k \in 1..Len(prepared) : ~bareToken(prepared[k]) THEN 6 ELSE 16

\* C14 (as claimed): the planner's groups are non-empty, hold at most
\* claimedCap items, all but the last exactly claimedCap, and concatenated they
\* are the prepared list.
C14_CapSixUnlessAllBareToken ==
  (pc = "loop" /\ splits = {} /\ sent = {} /\ group = <<>>) =>
    /\ \A g \in 1..Len(queue) : Len(queue[g]) \in 1..claimedCap
    /\ \A g \in 1..(Len(queue) - 1) : Len(queue[g]) = claimedCap
    /\ concat(queue) = wholeGroup

sentMints == UNION {mintsOf(s) : s \in sent}

\* C16: the halves of a split group take its place at the head of the queue,
\* first half first, so the queue always holds the rest of the prepared list
\* in order, behind everything submitted; each transaction handed to the
\* wallet starts at the first prepared item not yet submitted.
C16_SubmittedInPreparedOrder ==
  /\ [][(pc = "loop" /\ pc' = "loop" /\ queue' # queue) =>
          /\ queue'[1] = claimedHalves(Head(queue))[1]
          /\ queue'[2] = claimedHalves(Head(queue))[2]
          /\ Tail(Tail(queue')) = Tail(queue)]_vars
  /\ [](LET rest == concat(queue) IN
          /\ \A k \in 1..(Len(rest) - 1) : rest[k + 1].mint = rest[k].mint + 1
          /\ Len(rest) > 0 => rest[Len(rest)].mint = Len(prepared)
          /\ \A k \in 1..Len(rest) : \A m \in sentMints \cup mintsOf(group) :
               m < rest[k].mint)
  /\ [][(sent' # sent) =>
          /\ sent' = sent \cup {group}
          /\ sentMints = 1..(group[1].mint - 1)
          /\ \A k \in 1..Len(group) : group[k].mint = group[1].mint + k - 1]_vars

C16_Witness ==
  /\ pc = "wallet1"
  /\ queue # <<>>
  /\ \E g \in splits :
       /\ Len(g) = 6
       /\ claimedHalves(g)[2] = group
       /\ claimedHalves(g)[1] \in splits
       /\ claimedHalves(claimedHalves(g)[1])[1] \in sent
       /\ claimedHalves(claimedHalves(g)[1])[2] \in sent

\* C17: if every awaited call returns, sendGroups ends: the queue runs empty
\* and the run returns, or the run throws, whatever the simulator and the
\* wallet answer; each split puts two strictly shorter groups in the queue.
C17_DispatcherTerminates ==
  /\ <>(pc \in {"done", "thrown"})
  /\ [](pc = "done" => queue = <<>>)
  /\ [][(pc = "loop" /\ pc' = "loop" /\ queue' # queue) =>
          /\ Len(queue'[1]) < Len(Head(queue))
          /\ Len(queue'[2]) < Len(Head(queue))]_vars

C17_Witness ==
  /\ pc = "done"
  /\ queue = <<>>
  /\ Len(prepared) = 7
  /\ Cardinality(splits) = 6
  /\ Cardinality(sent) = 7

\* the records of group g under the signature of its transaction
recordsOf(g) == [k \in 1..Len(g) |-> [mint |-> g[k].mint, sig |-> sigOf(g)]]

\* C18: the succeeded list changes only when a wallet call returns a
\* signature, and then by the records of the current group, one per item in
\* group order, appended under that signature; every record is of a group
\* handed to the wallet and not declined, and no item is recorded twice.
C18_SignedGroupRecorded ==
  /\ [][(ok' # ok) =>
          /\ pc \in {"wallet1", "wallet2"}
          /\ inflight.slot # 0
          /\ group \in sent
          /\ ok' = ok \o recordsOf(group)]_vars
  /\ [][(pc \in {"wallet1", "wallet2"} /\ pc' \in {"loop", "done"} /\ caught' = caught) =>
          ok' = ok \o recordsOf(group)]_vars
  /\ [](\A e \in Range(ok) :
          \E g \in sent \ declined : e.mint \in mintsOf(g) /\ e.sig = sigOf(g))
  /\ [](\A j, k \in 1..Len(ok) : ok[j].mint = ok[k].mint => j = k)

C18_Witness ==
  /\ pc = "done"
  /\ Len(ok) = 5
  /\ \E g \in sent : Len(g) = 3 /\ SubSeq(ok, 3, 5) = recordsOf(g)
  /\ declined = {}

\* the wallet capability fails a call with a text naming a rejection or a
\* cancellation: the call with options, or the call without
rejectionReported ==
  \/ /\ pc = "wallet1"
     /\ inflight.firstErr = ""
     /\ inflight'.firstErr \in RejectTexts
  \/ /\ pc = "wallet2"
     /\ caught' # caught
     /\ caught'.text \in RejectTexts

\* C19 (as claimed): once the wallet capability has reported a rejection for a
\* group's transaction, no call stays or is put before the wallet for that
\* group: the dispatcher is back at the head of the unchanged queue (or
\* returns), and nothing of a declined group is presented again.
C19_NoAttemptAfterRejection ==
  /\ [][rejectionReported =>
          /\ inflight'.slot = 0
          /\ pc' \in {"loop", "done"}
          /\ queue' = queue]_vars
  /\ [][presented =>
          \A d \in declined : mintsOf(d) \cap mintsOf(group) = {}]_vars

\* C20 (as claimed): for every descriptor not flagged compressed the core
\* builder is called, whatever isCoreHint says, and no other builder call,
\* account read or simulation is issued for an item before it.
C20_CoreBuilderTriedFirst ==
  /\ \A c \in calls : [mint |-> c.mint, call |-> "buildCoreBurnVariants"] \in calls
  /\ \A k \in 1..Len(rawItems) :
       (~rawItems[k].isCompressed /\ (k < i \/ pc \in {"plan", "loop", "done"})) =>
         [mint |-> k, call |-> "buildCoreBurnVariants"] \in calls

\* ------------------------------------------------ claims on the resolution

\* the reasons the core branch records when its builder fails or yields nothing
coreFailureReasons ==
  {"core build failed: asset not found", "core burn: no viable instructions"}

\* C21 (as claimed): when buildCoreBurnVariants fails or yields no candidate,
\* the asset is not skipped and no error is raised: the iteration goes on to
\* the ledger-token strategies (mint read, holding account, pNFT builder) for
\* the same asset.
C21_CoreFailureFallsThrough ==
  /\ [][(pc = "coreBuild" /\ pc' # "coreSim") =>
          /\ skipped' = skipped
          /\ i' = i
          /\ pc' \in {"mintRead", "taRead", "pnftBuild"}]_vars
  /\ [][\A k \in 1..Len(skipped') :
          skipped'[k].reason \notin coreFailureReasons]_vars

\* positions of an iteration at which programId is in use on the ledger-token path
ledgerStages == {"taRead", "pnftBuild", "pnftSim", "legacyBuild", "legacySim"}

\* C22 (as claimed): the token program used on the ledger-token path has been
\* read from the owner of the mint account (getMintProgramId was called for
\* the item), also when the descriptor carries programIdHint; a descriptor
\* without holding account gets the associated account of that program.
C22_ProgramReadFromMintOwner ==
  /\ pc \in ledgerStages => [mint |-> i, call |-> "getMintProgramId"] \in calls
  /\ (pc = "pnftBuild" /\ it.tokenAccount = "none") =>
       tokenAccount = resolveAtaByMintProgram(programId)

\* the holding account alone: derived when none is supplied, and
\* after the read of a supplied account either kept or re-derived
HoldingAccountResolved ==
  /\ (pc \in ledgerStages \ {"taRead"} /\ it.tokenAccount = "none") =>
       tokenAccount = resolveAtaByMintProgram(programId)
  /\ (pc \in ledgerStages \ {"taRead"} /\ it.tokenAccount = "supplied") =>
       tokenAccount \in {"supplied", resolveAtaByMintProgram(programId)}

\* every simulation logged for the current item was refused
noneAccepted(log) == \A k \in 1..Len(log) : ~log[k].ok

\* the item whose pNFT candidates `variants` holds: the current one while it
\* is being simulated, the previous one once the iteration has ended
variantsMint == IF pc = "pnftSim" THEN i ELSE i - 1

\* C23: when buildPnftVariants returned candidates and every one of them was
\* simulated and refused, the asset is prepared with kind 'pnft' and the first
\* existing candidate of the priority order, unsimulated; it is not skipped,
\* gets no legacy or bare-token sequence, and buildLegacyTmBurn is never
\* called for an asset that has pNFT candidates.
C23_FallbackToExistingCandidate ==
  /\ [][(pc = "pnftSim" /\ i' = i + 1 /\ noneAccepted(simLog')) =>
          /\ Len(simLog') = Len(claimedOrder(variants))
          /\ prepared' = Append(prepared,
                                [mint |-> i, kind |-> "pnft",
                                 ixs |-> claimedOrder(variants)[1].ixs])
          /\ skipped' = skipped]_vars
  /\ [][variants'.found =>
          [mint |-> variantsMint', call |-> "buildLegacyTmBurn"] \notin calls']_vars

C23_Witness ==
  /\ pc = "plan"
  /\ variants.found
  /\ variants.burnOnlyWithRules # <<>>
  /\ Len(simLog) = 4
  /\ noneAccepted(simLog)
  /\ Len(prepared) = 1
  /\ prepared[1].kind = "pnft"
  /\ prepared[1].ixs = variants.burnOnlyWithRules

\* the bare-token item of the current asset: burn of one unit, then close
bareTokenItem ==
  [mint |-> i, kind |-> "spl", ixs |-> splBurnIxs(tokenAccount, programId)]

\* C24: an asset for which buildPnftVariants yielded nothing goes to the
\* legacy builder; the legacy sequence is prepared iff the Metadata account
\* exists and its simulation is accepted; if the account is absent (or the
\* builder fails) or the simulation is refused, the bare-token burn-and-close
\* is prepared; no such asset is skipped.
C24_LegacyIffRecordAndAccepted ==
  /\ [][(pc = "pnftBuild" /\ ~variants'.found) =>
          /\ pc' = "legacyBuild"
          /\ skipped' = skipped
          /\ prepared' = prepared]_vars
  /\ [][(pc = "legacyBuild") =>
          /\ skipped' = skipped
          /\ IF oracle'[<<i, "legacy">>] = "metadata"
             THEN /\ pc' = "legacySim"
                  /\ prepared' = prepared
                  /\ Len(pending') = 2
                  /\ pending'[1].op = "burnV1"
                  /\ pending'[1].acct = tokenAccount
             ELSE prepared' = Append(prepared, bareTokenItem)]_vars
  /\ [][(pc = "legacySim") =>
          /\ skipped' = skipped
          /\ prepared' =
               Append(prepared,
                      IF oracle'[<<i, "legacy-tm-check">>]
                      THEN [mint |-> i, kind |-> "spl", ixs |-> pending]
                      ELSE bareTokenItem)]_vars

C24_Witness ==
  /\ pc = "plan"
  /\ pass = 1
  /\ <<1, "legacy">> \in DOMAIN oracle
  /\ oracle[<<1, "legacy">>] = "metadata"
  /\ ~oracle[<<1, "legacy-tm-check">>]
  /\ Len(prepared) = 1
  /\ bareToken(prepared[1])
  /\ skipped = <<>>

\* number of records the resolution has produced for descriptor k
outcomes(k) ==
  Cardinality({j \in 1..Len(skipped) : skipped[j].mint = k})
    + Cardinality({j \in 1..Len(prepared) : prepared[j].mint = k})

\* C25: every descriptor whose iteration has ended has produced exactly one
\* record, a skipped record or a PreparedItem with one non-empty instruction
\* sequence and one kind tag, and a descriptor not yet reached has produced
\* none; after the resolution pass this holds of every descriptor.
C25_OneOutcomePerDescriptor ==
  /\ \A k \in 1..nItems : outcomes(k) = IF k < i THEN 1 ELSE 0
  /\ \A j \in 1..Len(prepared) :
       /\ prepared[j].ixs # <<>>
       /\ prepared[j].kind \in {"spl", "pnft", "core"}
       /\ prepared[j].mint \in 1..nItems
  /\ \A j \in 1..Len(skipped) : skipped[j].mint \in 1..nItems
  /\ pc \in {"plan", "loop", "fetch", "wallet1", "wallet2", "done"} => i = nItems + 1

C25_Witness ==
  /\ pc = "plan"
  /\ nItems = 1
  /\ Len(prepared) = 1
  /\ skipped = <<>>
  /\ outcomes(1) = 1

\* ------------------------------------------------ claims on the dispatcher

\* C26: a group reaches the context fetch only from its own diagnostic
\* simulation, and the wallet only from that fetch, the group unchanged and no
\* other simulation or submission in between; the slot handed to
\* signAndSendTransaction, and again to the retry without options, is the slot
\* of the context that fetch returned.
C26_FreshContextPerSubmission ==
  /\ [][(pc' = "fetch") =>
          /\ pc = "loop"
          /\ group' = Head(queue)
          /\ simSeen' # "none"
          /\ inflight' = NoInflight]_vars
  /\ [][presented =>
          /\ pc = "fetch"
          /\ simSeen # "none"
          /\ group' = group
          /\ inflight'.fetched \in 1..MaxSlot
          /\ inflight'.slot = inflight'.fetched]_vars
  /\ [][retried =>
          /\ group' = group
          /\ inflight'.fetched = inflight.fetched
          /\ inflight'.slot = inflight.fetched]_vars
  /\ [][(pc \in {"wallet1", "wallet2"} /\ inflight'.slot # 0) =>
          inflight'.fetched = inflight.fetched]_vars

\* a second group is before the wallet with the slot of its own, later fetch
C26_Witness ==
  /\ pc = "wallet1"
  /\ ok # <<>>
  /\ inflight.fetched = 2
  /\ inflight.slot = 2
  /\ group \in sent

\* every transaction handed to the wallet so far has settled: its group was
\* signed (its items are in ok) or dropped
allSettled ==
  \A s \in sent :
    \/ s \in declined
    \/ \A k \in 1..Len(s) : \E j \in 1..Len(ok) : ok[j].mint = s[k].mint

\* C27: a wallet call is pending only while sendGroups waits for it with its
\* group in hand; a group is taken from the queue, and the loop returns, only
\* when no call is pending, no group is in hand and every transaction handed
\* over before has settled: at most one submission is in flight.
C27_OneGroupAtATime ==
  /\ [](inflight.slot # 0 <=> pc \in {"wallet1", "wallet2"})
  /\ [](pc \in {"fetch", "wallet1", "wallet2"} => group # <<>>)
  /\ [](pc \in {"loop", "done"} =>
          /\ inflight = NoInflight
          /\ group = <<>>
          /\ allSettled)
  /\ [][(queue' # queue) =>
          (pc \in {"plan", "loop"} /\ inflight = NoInflight /\ allSettled)]_vars
  /\ [][presented => (allSettled /\ group \notin sent)]_vars

C27_Witness ==
  /\ pc = "wallet2"
  /\ queue # <<>>
  /\ ok # <<>>
  /\ declined # {}
  /\ inflight.slot # 0

\* number of positions of sequence g that hold the item of mint m
countIn(g, m) == Cardinality({k \in 1..Len(g) : g[k].mint = m})

\* the group sendGroups has in hand: the one taken from the queue, which is
\* still the one in hand when an error leaves the function
inHand == IF pc = "thrown" THEN caught.group ELSE group

\* number of places of the dispatcher that hold the item of mint m: the groups
\* waiting in the queue, the group in hand, the succeeded list, the groups
\* dropped after a user rejection
places(m) ==
  countIn(concat(queue), m) + countIn(inHand, m) + countIn(ok, m)
    + Cardinality({d \in declined : m \in mintsOf(d)})

\* C29: once the planner has filled the queue, every prepared item is in
\* exactly one place among the waiting groups, the group in hand, the
\* succeeded list and the dropped groups, and nothing else is in any of them;
\* no item is in two transactions handed to the wallet.
C29_ItemsConserved ==
  pc \in {"loop", "fetch", "wallet1", "wallet2", "done", "thrown"} =>
    /\ \A k \in 1..Len(prepared) : places(prepared[k].mint) = 1
    /\ mintsOf(concat(queue)) \cup mintsOf(inHand) \cup mintsOf(ok)
         \cup UNION {mintsOf(d) : d \in declined} \subseteq mintsOf(prepared)
    /\ \A s1 \in sent : \A s2 \in sent :
         s1 # s2 => mintsOf(s1) \cap mintsOf(s2) = {}
    /\ \A s \in sent : \A g \in Range(queue) : mintsOf(s) \cap mintsOf(g) = {}

\* after two splits: a quarter signed, a quarter declined, one in hand, the
\* second half still waiting
C29_Witness ==
  /\ pc = "wallet1"
  /\ Cardinality(splits) >= 2
  /\ ok # <<>>
  /\ declined # {}
  /\ queue # <<>>
  /\ \A k \in 1..Len(prepared) : places(prepared[k].mint) = 1

\* ------------------------------------------------ claims on the enrichment

\* run r existed before the step and has been abandoned
abandoned(r) == r \in 1..Len(runs) /\ runs[r].aborted

\* C28: every slice awaited holds 1 to 24 assets of its run's queue; a run
\* takes a new slice only after the sleep that follows the resolution of its
\* previous slice, and the new slice starts where the previous one ended; an
\* abandoned run takes no further slice, and nfts is changed only by a change
\* of rawNfts or by the resolution of a slice of a run that is not abandoned,
\* also when an abandoned run's slice resolves while a newer run is active.
C28_SlicesOneByOneUnlessAbandoned ==
  /\ [](\A r \in 1..Len(runs) :
          /\ runs[r].hi - runs[r].lo \in 1..BATCH
          /\ runs[r].hi <= runs[r].len)
  /\ [][\A r \in 1..Len(runs) :
          (runs'[r].lo # runs[r].lo) =>
            /\ runs[r].at = "sleep"
            /\ runs'[r].at = "slice"
            /\ runs'[r].lo = runs[r].hi]_vars
  /\ [][\A r \in 1..Len(runs) :
          abandoned(r) =>
            /\ runs'[r].lo = runs[r].lo
            /\ runs'[r].at \in {runs[r].at, "broke", "left"}]_vars
  /\ [][(nfts' # nfts) =>
          \/ effects' # effects
          \/ \E r \in 1..Len(runs) :
               /\ ~abandoned(r)
               /\ runs[r].at = "slice"
               /\ runs'[r].at \in {"sleep", "done"}
               /\ nfts' = setNfts(nfts, runs[r].lo, runs[r].hi, r)]_vars

\* the first run was abandoned with its first slice in flight; the slice has
\* resolved while the second run awaits its own first slice, and nothing of
\* the first run is in nfts
C28_Witness ==
  /\ mounted
  /\ Len(runs) = 2
  /\ runs[1].aborted
  /\ runs[1].at = "broke"
  /\ runs[1].len > BATCH
  /\ ~runs[2].aborted
  /\ runs[2].at = "slice"
  /\ runs[2].lo = 0
  /\ Len(nfts) > BATCH
  /\ \A k \in 1..Len(nfts) : nfts[k] = 0

\* the run started last has processed all its slices
lastRunDone == runs # <<>> /\ runs[Len(runs)].at = "done"

\* C30: isEnriching is false whenever the work list is empty or the run
\* started last has processed all its slices; while the hook stays mounted a
\* set flag is eventually cleared, however runs were abandoned and restarted;
\* and the flag is cleared only by an effect invocation on an empty work list
\* or by the end of a run that is not abandoned, never by an abandoned run.
C30_BusyFlagEventuallyCleared ==
  /\ []((enrichQueue = 0 \/ lastRunDone) => ~isEnriching)
  /\ (isEnriching ~> (~isEnriching \/ ~mounted))
  /\ [][(isEnriching /\ ~isEnriching') =>
          \/ effects' # effects /\ enrichQueue' = 0
          \/ \E r \in 1..Len(runs) :
               /\ ~abandoned(r)
               /\ runs[r].at = "slice"
               /\ runs'[r].at = "done"]_vars
  /\ [][\A r \in 1..Len(runs) :
          (abandoned(r) /\ runs'[r] # runs[r]) => isEnriching' = isEnriching]_vars

\* two runs were abandoned, one at its slice and one in its sleep; the third
\* has processed its three slices and cleared the flag
C30_Witness ==
  /\ mounted
  /\ Len(runs) = 3
  /\ {runs[1].at, runs[2].at} = {"broke", "left"}
  /\ runs[3].at = "done"
  /\ ~runs[3].aborted
  /\ runs[3].len > 2 * BATCH
  /\ ~isEnriching

====
